---- MODULE Spec2Model ----
(***************************************************************************)
(* Model of rl4co/models/zoo/common/nonautoregressive/decoder.py:          *)
(* EdgeHeatmapGenerator (edge scores -> dense heatmap) and                 *)
(* NonAutoregressiveDecoder (heatmap -> decode loop -> reward).            *)
(*                                                                         *)
(* Tensors are functions over 0-based index ranges, as in the source.      *)
(* Real numbers are fixed point: the real r is the integer r * Scale, so   *)
(* that the halving of the symmetrisation and the division of the mean     *)
(* are exact on the scores drawn here.  exp is modelled by powers of two   *)
(* and a log-probability by the fraction num/den it is the logarithm of:   *)
(* num = 0 < den is -inf, den = 0 is NaN (0/0), num > 0 is finite.         *)
(***************************************************************************)
EXTENDS Integers, Sequences, FiniteSets, TLC

\* ------------------------------------------------------------------ bounds
BatchSize == 2
NumNodes == 2
MaxStarts == 2
MaxSteps == 2
MaxEdges == 2
MaxFeat == 2
MaxCalls == 3
IdxMaxBatch == 2
IdxMaxStarts == 3

VARIABLES
    pc,             \* position in forward
    graph,          \* the graph batch: a set of edges [inst, src, dst, attr]
    undirected_graph,
    calc_reward,
    num_starts,     \* what the strategy's pre_decoder_hook reports
    heatmaps_logp,  \* forward's local: the heatmap
    td,             \* the rollout state
    score,          \* _get_log_p's log_p before the mask is written
    log_p,          \* forward's local log_p
    mask,           \* forward's local mask
    trace,          \* the collaborators forward has invoked, in order
    cache,          \* lru_cache of _multistart_batched_index
    calls,          \* number of direct calls of _multistart_batched_index
    idx_args,       \* arguments of the last direct call
    idx_result,     \* result of the last direct call
    seen            \* every (arguments, result) a direct call has returned

vars == <<pc, graph, undirected_graph, calc_reward, num_starts, heatmaps_logp,
          td, score, log_p, mask, trace, cache, calls, idx_args, idx_result, seen>>

idxvars == <<calls, idx_args, idx_result, seen>>

Range0(n) == 0 .. (n - 1)
Instances == Range0(BatchSize)
Nodes == Range0(NumNodes)

\* one unit of the fixed-point representation
Scale == 2 * NumNodes

\* f[0] + ... + f[n - 1]
RECURSIVE Sum(_, _)
Sum(f, n) == IF n <= 0 THEN 0 ELSE f[n - 1] + Sum(f, n - 1)

RECURSIVE Pow2(_)
Pow2(n) == IF n <= 0 THEN 1 ELSE 2 * Pow2(n - 1)

\* ------------------------------------------------- EdgeHeatmapGenerator
\* The MLP followed by sigmoid(.) * 10: a score strictly between 0 and 10
\* for every edge, here the edge's feature level in fixed point.
MLPScore(f) == f * Scale

ScoreEdges(edges) == {[e EXCEPT !.attr = MLPScore(e.attr)] : e \in edges}

ZeroHeatmapsOnes(bs, n) ==
    [i \in Range0(bs) |-> [u \in Range0(n) |-> [v \in Range0(n) |-> Scale]]]

\* torch.zeros((batch_size, num_nodes, num_nodes))
ZeroHeatmaps(bs, n) ==
    [i \in Range0(bs) |-> [u \in Range0(n) |-> [v \in Range0(n) |-> 0]]]

EdgesAt(edges, i, u, v) ==
    {e \in edges : e.inst = i /\ e.src = u /\ e.dst = v}

\* heatmaps_logp[index, edge_index[0], edge_index[1]] = edge_attr.flatten()
\* seen from one position of a heatmap that holds `was` there: no edge on
\* the position leaves it as it was; otherwise an edge's score is written,
\* and among several edges on the position the one written last stays,
\* which one that is being undefined for an assignment with duplicate
\* indices.
WrittenAt(was, edges, i, u, v) ==
    IF EdgesAt(edges, i, u, v) = {} THEN {was}
    ELSE {e.attr : e \in EdgesAt(edges, i, u, v)}

\* Every result of the writes of the loop over the graphs, position by
\* position: the first k positions of the flattened tensor.
RECURSIVE ScatterOutcomes(_, _, _)
ScatterOutcomes(h, edges, k) ==
    IF k <= 0 THEN {<<>>}
    ELSE LET i == (k - 1) \div (NumNodes * NumNodes)
             u == ((k - 1) \div NumNodes) % NumNodes
             v == (k - 1) % NumNodes
         IN  {Append(f, x) : f \in ScatterOutcomes(h, edges, k - 1),
                             x \in WrittenAt(h[i][u][v], edges, i, u, v)}

\* the flattened tensor f as [batch_size, num_nodes, num_nodes]
Unflatten(f, bs, n) ==
    [i \in Range0(bs) |-> [u \in Range0(n) |-> [v \in Range0(n) |->
        f[i * n * n + u * n + v + 1]]]]

SymmetrizeNoTranspose(h) ==
    [i \in DOMAIN h |-> [u \in DOMAIN h[i] |-> [v \in DOMAIN h[i][u] |->
        (h[i][u][v] + h[i][u][v]) \div 2]]]

\* (heatmaps_logp + heatmaps_logp.transpose(1, 2)) * 0.5
Symmetrize(h) ==
    [i \in DOMAIN h |-> [u \in DOMAIN h[i] |-> [v \in DOMAIN h[i][u] |->
        (h[i][u][v] + h[i][v][u]) \div 2]]]

\* _make_heatmaps: the set of heatmaps it can return for the scored edges
MakeHeatmaps(edges, undirected) ==
    {IF undirected
     THEN Symmetrize(Unflatten(f, BatchSize, NumNodes))
     ELSE Unflatten(f, BatchSize, NumNodes) :
        f \in ScatterOutcomes(ZeroHeatmaps(BatchSize, NumNodes), edges,
                              BatchSize * NumNodes * NumNodes)}

\* ------------------------------------------------------------ _get_log_p
\* -torch.inf among the scores, all of which are >= 0
NegInf == -1

NegMaskIdentity(am) == am

\* mask = ~td["action_mask"]
NegMask(am) == [s \in DOMAIN am |-> [v \in DOMAIN am[s] |-> ~am[s][v]]]

MeanFirstNodeDim(h) ==
    [data |-> [i \in DOMAIN h |-> [v \in DOMAIN h[i] |->
                Sum([u \in DOMAIN h[i] |-> h[i][u][v]], Cardinality(DOMAIN h[i]))
                    \div Cardinality(DOMAIN h[i])]],
     view |-> FALSE]

\* heatmaps_logp.mean(-1): the mean over the last dimension, a new tensor
MeanLastDim(h) ==
    [data |-> [i \in DOMAIN h |-> [u \in DOMAIN h[i] |->
                Sum(h[i][u], Cardinality(DOMAIN h[i][u]))
                    \div Cardinality(DOMAIN h[i][u])]],
     view |-> FALSE]

IndexRowsView(h, indexer, action) ==
    [data |-> [s \in DOMAIN indexer |-> h[indexer[s]][action[s]]],
     view |-> TRUE]

\* heatmaps_logp[_indexer, current_action, :]: indexing with index tensors
\* gathers the rows into a new tensor that shares no storage with the heatmap
IndexRows(h, indexer, action) ==
    [data |-> [s \in DOMAIN indexer |-> h[indexer[s]][action[s]]],
     view |-> FALSE]

MaskedFillNothing(lp, m) == lp

\* log_p[mask] = -torch.inf
MaskedFill(lp, m) ==
    [s \in DOMAIN lp |-> [v \in DOMAIN lp[s] |->
        IF m[s][v] THEN NegInf ELSE lp[s][v]]]

\* what the in-place write does to the storage log_p was taken from, when
\* log_p is a view of it
WriteThrough(h, indexer, action, m) ==
    [i \in DOMAIN h |-> [u \in DOMAIN h[i] |-> [v \in DOMAIN h[i][u] |->
        IF \E s \in DOMAIN indexer :
              indexer[s] = i /\ action[s] = u /\ m[s][v]
        THEN NegInf ELSE h[i][u][v]]]]

Exp(x) == IF x = NegInf THEN 0 ELSE Pow2(x)

LogSoftmaxUnnormalised(lp) ==
    [s \in DOMAIN lp |-> [v \in DOMAIN lp[s] |->
        [num |-> Exp(lp[s][v]), den |-> 1 + Sum([w \in DOMAIN lp[s] |-> Exp(lp[s][w])], Cardinality(DOMAIN lp[s]))]]]

\* nn.functional.log_softmax(log_p, -1): x - log(sum(exp(x))), entry by entry
LogSoftmax(lp) ==
    [s \in DOMAIN lp |->
        LET z == Sum([w \in DOMAIN lp[s] |-> Exp(lp[s][w])], Cardinality(DOMAIN lp[s]))
        IN  [v \in DOMAIN lp[s] |-> [num |-> Exp(lp[s][v]), den |-> z]]]

IsNegInf(p) == p.num = 0 /\ p.den > 0
IsNaN(p) == p.den = 0
IsFinite(p) == p.num > 0 /\ p.den > 0

\* ------------------------------------------- _multistart_batched_index
\* rl4co.utils.ops.batchify(x, repeats): each entry of x repeated `repeats`
\* times in place
Batchify(x, repeats) ==
    [k \in Range0(Cardinality(DOMAIN x) * repeats) |-> x[k \div repeats]]

MultistartBatchedIndexOffByOne(batch_size, starts) ==
    LET arr == [k \in Range0(batch_size) |-> k]
    IN  IF starts <= 2 THEN arr ELSE Batchify(arr, starts)

MultistartBatchedIndex(batch_size, starts) ==
    LET arr == [k \in Range0(batch_size) |-> k]
    IN  IF starts <= 1 THEN arr ELSE Batchify(arr, starts)

\* lru_cache(10)
CacheSize == 10

CacheKey(batch_size, starts) == <<batch_size, starts>>

RemoveAt(c, j) == [k \in 1 .. (Len(c) - 1) |-> IF k < j THEN c[k] ELSE c[k + 1]]

\* A call through the cache: the value returned and the cache afterwards,
\* least recently used entry first.
CachedIndex(c, batch_size, starts) ==
    LET key == CacheKey(batch_size, starts)
        hit == {j \in 1 .. Len(c) : c[j].key = key}
    IN  IF hit # {}
        THEN LET j == CHOOSE x \in hit : TRUE
             IN  [value |-> c[j].value, cache |-> Append(RemoveAt(c, j), c[j])]
        ELSE LET v == MultistartBatchedIndex(batch_size, starts)
                 kept == IF Len(c) >= CacheSize THEN Tail(c) ELSE c
             IN  [value |-> v, cache |-> Append(kept, [key |-> key, value |-> v])]

\* ------------------------------------------------ environment, strategy
\* The environment and the decoding strategy are collaborators behind the
\* interfaces forward calls.  The environment here is a visiting problem:
\* the nodes below `reach` are feasible (action_mask true) until they are
\* visited, and a sequence is done once `horizon` steps were taken.
EnvReset(h, reach) ==
    [done        |-> [s \in Instances |-> h - s <= 0],
     action_mask |-> [s \in Instances |-> [v \in Nodes |-> v < reach]],
     action      |-> [s \in Instances |-> 0],
     horizon     |-> [s \in Instances |-> IF h - s <= 0 THEN 0 ELSE h - s],
     inst        |-> [s \in Instances |-> s],
     keys        |-> {},
     i           |-> 0,
     reach       |-> reach]

\* env.step(td)["next"]
EnvStep(t) ==
    [t EXCEPT !.i = t.i + 1,
              !.action_mask = [s \in DOMAIN t.done |-> [v \in Nodes |->
                                  t.action_mask[s][v] /\ v # t.action[s]]],
              !.done = [s \in DOMAIN t.done |-> t.i + 1 >= t.horizon[s]]]

\* batchify(td, num_starts)
BatchifyTd(t, starts) ==
    [t EXCEPT !.done = Batchify(t.done, starts),
              !.action_mask = Batchify(t.action_mask, starts),
              !.action = Batchify(t.action, starts),
              !.horizon = Batchify(t.horizon, starts),
              !.inst = Batchify(t.inst, starts)]

\* env.select_start_nodes: the k-th rollout of an instance starts at node k
StartNodes(t, starts) ==
    [s \in Range0(Cardinality(DOMAIN t.done) * starts) |-> (s % starts) % NumNodes]

\* strategy.pre_decoder_hook(td, env): with starts, the state is expanded,
\* the start nodes are taken as the first action and the environment stepped
PreHook(t, starts) ==
    IF starts >= 1
    THEN EnvStep([BatchifyTd(t, starts) EXCEPT !.action = StartNodes(t, starts),
                                               !.keys = @ \cup {"action"}])
    ELSE t

\* The nodes a strategy can select from a row of log_p: greedy and sampling
\* select a node of finite log-probability; from a row of NaN anything.
Selectable(row) ==
    IF \A v \in DOMAIN row : IsNaN(row[v]) THEN DOMAIN row
    ELSE {v \in DOMAIN row : IsFinite(row[v])}

\* the selections for the rows 0 .. n - 1 of log_p
RECURSIVE Selections(_, _)
Selections(lp, n) ==
    IF n <= 0 THEN {<<>>}
    ELSE {((n - 1) :> v) @@ f : v \in Selectable(lp[n - 1]),
                                f \in Selections(lp, n - 1)}

\* ---------------------------------------------- NonAutoregressiveDecoder
LoopConditionAny(t) == \A s \in DOMAIN t.done : ~t.done[s]

\* while not td["done"].all()
LoopCondition(t) == ~(\A s \in DOMAIN t.done : t.done[s])

AlwaysCalcReward(flag) == TRUE

\* if calc_reward:
ShouldCalcReward(flag) == flag

\* heatmaps_logp = self.heatmap_generator(graph)
HeatmapGenerator ==
    /\ pc = "start"
    /\ graph' = ScoreEdges(graph)
    /\ heatmaps_logp' \in MakeHeatmaps(graph', undirected_graph)
    /\ trace' = Append(trace, "heatmap_generator")
    /\ pc' = "pre_hook"
    /\ UNCHANGED <<undirected_graph, calc_reward, num_starts, td, score, log_p,
                   mask, cache, idxvars>>

\* td, env, num_starts = self.decode_strategy.pre_decoder_hook(td, env)
PreDecoderHook ==
    /\ pc = "pre_hook"
    /\ td' = PreHook(td, num_starts)
    /\ trace' = Append(trace, "pre_decoder_hook")
    /\ pc' = "loop"
    /\ UNCHANGED <<graph, undirected_graph, calc_reward, num_starts,
                   heatmaps_logp, score, log_p, mask, cache, idxvars>>

\* log_p, mask = self._get_log_p(td, heatmaps_logp, num_starts)
GetLogP ==
    /\ pc = "loop"
    /\ LoopCondition(td)
    /\ LET m == NegMask(td.action_mask)
           first == "action" \notin td.keys
           batch_size == Cardinality(DOMAIN heatmaps_logp)
           got == CachedIndex(cache, batch_size, num_starts)
           sel == IF first THEN MeanLastDim(heatmaps_logp)
                  ELSE IndexRows(heatmaps_logp, got.value, td.action)
       IN  /\ mask' = m
           /\ score' = sel.data
           /\ log_p' = LogSoftmax(MaskedFill(sel.data, m))
           /\ heatmaps_logp' =
                 IF sel.view
                 THEN WriteThrough(heatmaps_logp, got.value, td.action, m)
                 ELSE heatmaps_logp
           /\ cache' = IF first THEN cache ELSE got.cache
    /\ trace' = Append(trace, "_get_log_p")
    /\ pc' = "strategy_step"
    /\ UNCHANGED <<graph, undirected_graph, calc_reward, num_starts, td, idxvars>>

\* td = self.decode_strategy.step(log_p, mask, td)
\* (log_p and the scores it was made from are not read again after this
\* call; the model forgets them here)
StrategyStep ==
    /\ pc = "strategy_step"
    /\ \E a \in Selections(log_p, Cardinality(DOMAIN log_p)) :
          td' = [td EXCEPT !.action = a, !.keys = @ \cup {"action"}]
    /\ score' = <<>>
    /\ log_p' = <<>>
    /\ trace' = Append(trace, "strategy.step")
    /\ pc' = "env_step"
    /\ UNCHANGED <<graph, undirected_graph, calc_reward, num_starts,
                   heatmaps_logp, mask, cache, idxvars>>

\* td = env.step(td)["next"]
EnvStepAction ==
    /\ pc = "env_step"
    /\ td' = EnvStep(td)
    /\ trace' = Append(trace, "env.step")
    /\ pc' = "loop"
    /\ UNCHANGED <<graph, undirected_graph, calc_reward, num_starts,
                   heatmaps_logp, score, log_p, mask, cache, idxvars>>

\* outputs, actions, td, env = self.decode_strategy.post_decoder_hook(td, env)
PostDecoderHook ==
    /\ pc = "loop"
    /\ ~LoopCondition(td)
    /\ trace' = Append(trace, "post_decoder_hook")
    /\ pc' = "calc"
    /\ UNCHANGED <<graph, undirected_graph, calc_reward, num_starts,
                   heatmaps_logp, td, score, log_p, mask, cache, idxvars>>

\* if calc_reward: td.set("reward", env.get_reward(td, actions)); return
GetReward ==
    /\ pc = "calc"
    /\ ShouldCalcReward(calc_reward)
    /\ td' = [td EXCEPT !.keys = @ \cup {"reward"}]
    /\ trace' = Append(trace, "env.get_reward")
    /\ pc' = "returned"
    /\ UNCHANGED <<graph, undirected_graph, calc_reward, num_starts,
                   heatmaps_logp, score, log_p, mask, cache, idxvars>>

\* return outputs, actions, td  (calc_reward false)
ReturnNoReward ==
    /\ pc = "calc"
    /\ ~ShouldCalcReward(calc_reward)
    /\ pc' = "returned"
    /\ UNCHANGED <<graph, undirected_graph, calc_reward, num_starts,
                   heatmaps_logp, td, score, log_p, mask, trace, cache, idxvars>>

\* A direct call of the memoized _multistart_batched_index
CallIndex ==
    /\ pc = "idx"
    /\ calls < MaxCalls
    /\ \E b \in 1 .. IdxMaxBatch, ns \in 0 .. IdxMaxStarts :
          LET got == CachedIndex(cache, b, ns)
          IN  /\ cache' = got.cache
              /\ idx_args' = <<b, ns>>
              /\ idx_result' = got.value
              /\ seen' = seen \cup {[args |-> <<b, ns>>, result |-> got.value]}
    /\ calls' = calls + 1
    /\ UNCHANGED <<pc, graph, undirected_graph, calc_reward, num_starts,
                   heatmaps_logp, td, score, log_p, mask, trace>>

\* ------------------------------------------------------------- the inputs
\* feature level of the edge u -> v of instance i in the decoder's graphs
FeatOf(i, u, v) == ((u + 2 * v + i) % MaxFeat) + 1

CompleteGraph ==
    {[inst |-> i, src |-> p[1], dst |-> p[2], attr |-> FeatOf(i, p[1], p[2])] :
        i \in Instances, p \in {q \in Nodes \X Nodes : q[1] # q[2]}}

PathGraph ==
    {[inst |-> i, src |-> u, dst |-> u + 1, attr |-> FeatOf(i, u, u)] :
        i \in Instances, u \in Nodes \ {NumNodes - 1}}

EdgeUniverse ==
    [inst : Instances, src : Nodes, dst : Nodes, attr : 1 .. MaxFeat]

RECURSIVE SubsetsUpTo(_, _)
SubsetsUpTo(U, k) ==
    IF k = 0 THEN {{}}
    ELSE LET S == SubsetsUpTo(U, k - 1)
         IN  S \cup {s \cup {a} : s \in S, a \in U}

InitLocals ==
    /\ heatmaps_logp = <<>>
    /\ score = <<>>
    /\ log_p = <<>>
    /\ mask = <<>>
    /\ trace = <<>>
    /\ cache = <<>>
    /\ calls = 0
    /\ idx_args = <<0, 0>>
    /\ idx_result = <<>>
    /\ seen = {}

Init ==
    /\ pc = "start"
    /\ graph \in {CompleteGraph, PathGraph}
    /\ undirected_graph \in BOOLEAN
    /\ calc_reward \in BOOLEAN
    /\ num_starts \in 0 .. MaxStarts
    /\ \E h \in 0 .. MaxSteps, reach \in {1, NumNodes} : td = EnvReset(h, reach)
    /\ InitLocals

Next ==
    \/ HeatmapGenerator
    \/ PreDecoderHook
    \/ GetLogP
    \/ StrategyStep
    \/ EnvStepAction
    \/ PostDecoderHook
    \/ GetReward
    \/ ReturnNoReward

Spec == Init /\ [][Next]_vars

\* forward is one call on one thread: a step that can be taken is taken
FairSpec == Spec /\ WF_vars(Next)

\* EdgeHeatmapGenerator.forward alone, on every small graph batch
InitHeat ==
    /\ pc = "start"
    /\ graph \in SubsetsUpTo(EdgeUniverse, MaxEdges)
    /\ undirected_graph \in BOOLEAN
    /\ calc_reward = FALSE
    /\ num_starts = 0
    /\ td = EnvReset(0, NumNodes)
    /\ InitLocals

NextHeat == HeatmapGenerator

SpecHeat == InitHeat /\ [][NextHeat]_vars

\* _multistart_batched_index alone, called repeatedly
InitIdx ==
    /\ pc = "idx"
    /\ graph = {}
    /\ undirected_graph = FALSE
    /\ calc_reward = FALSE
    /\ num_starts = 0
    /\ td = EnvReset(0, NumNodes)
    /\ InitLocals

NextIdx == CallIndex

SpecIdx == InitIdx /\ [][NextIdx]_vars

\* ------------------------------------------------------------ properties
AllDone(t) == \A s \in DOMAIN t.done : t.done[s]

Rows == DOMAIN td.done

HasFeasible(s) == \E v \in Nodes : td.action_mask[s][v]

AfterGetLogP == pc = "strategy_step"

HeatmapReady == pc = "pre_hook"

IsEdge(i, u, v) == EdgesAt(graph, i, u, v) # {}

MaxHorizon(t) ==
    CHOOSE h \in 0 .. MaxSteps :
        /\ \A s \in DOMAIN t.horizon : t.horizon[s] <= h
        /\ \E s \in DOMAIN t.horizon : t.horizon[s] = h

\* C1: the decode loop terminates and forward returns when the environment
\* sets every done flag within a bounded number of steps, and
\* post_decoder_hook is invoked only in a state where every sequence is done.
\* Termination as safety: before the return forward always has a next step,
\* an iteration is entered only while the environment's bound on its steps
\* is not yet used up, and the loop is left only with every done flag set.
C1_LoopTerminates ==
    /\ pc # "returned" => ENABLED Next
    /\ pc \in {"strategy_step", "env_step"} => td.i < MaxHorizon(td)
    /\ pc \in {"calc", "returned"} => AllDone(td)

\* The same as a liveness property of the fair specification.
C1_EventuallyReturns ==
    /\ <>(pc = "returned")
    /\ [][pc' = "calc" /\ pc # "calc" => AllDone(td)]_vars

C1_Witness ==
    /\ pc = "returned"
    /\ Len(trace) >= 9
    /\ \E s, r \in Rows : td.horizon[s] # td.horizon[r]

\* C2: the action a strategy selects among the nodes of finite
\* log-probability is a feasible node of the state it was selected in, for
\* every sequence that has a feasible node.
C2_ActionsRespectMask ==
    pc = "env_step" =>
        \A s \in Rows : HasFeasible(s) =>
            /\ td.action_mask[s][td.action[s]]
            /\ ~mask[s][td.action[s]]

C2_Witness ==
    /\ pc = "env_step"
    /\ \E s \in Rows : HasFeasible(s) /\ \E v \in Nodes : ~td.action_mask[s][v]

LoopCall(k) ==
    CASE k % 3 = 0 -> "_get_log_p"
      [] k % 3 = 1 -> "strategy.step"
      [] OTHER -> "env.step"

PostAt == {k \in 1 .. Len(trace) : trace[k] = "post_decoder_hook"}

\* C3: forward invokes the heatmap generator once and first, then
\* pre_decoder_hook, then iterations of _get_log_p, strategy.step, env.step,
\* then post_decoder_hook once, then env.get_reward if and only if
\* calc_reward, and the returned state holds `reward` if and only if
\* calc_reward.
C3_CallOrder ==
    /\ \A k \in 1 .. Len(trace) :
          IF k = 1 THEN trace[k] = "heatmap_generator"
          ELSE IF k = 2 THEN trace[k] = "pre_decoder_hook"
          ELSE IF \E p \in PostAt : p < k
               THEN trace[k] = "env.get_reward" /\ k - 1 \in PostAt /\ calc_reward
          ELSE \/ trace[k] = LoopCall(k - 3)
               \/ trace[k] = "post_decoder_hook" /\ (k - 3) % 3 = 0
    /\ pc = "returned" =>
          /\ PostAt # {}
          /\ calc_reward <=> trace[Len(trace)] = "env.get_reward"
          /\ calc_reward <=> "reward" \in td.keys
    /\ pc # "returned" => "reward" \notin td.keys

C3_Witness ==
    /\ pc = "returned"
    /\ ~calc_reward
    /\ Len(trace) = 9
    /\ "reward" \notin td.keys

C5_Symmetric ==
    HeatmapReady /\ undirected_graph =>
        \A i \in Instances, u \in Nodes, v \in Nodes :
            heatmaps_logp[i][u][v] = heatmaps_logp[i][v][u]

C5_Witness ==
    /\ HeatmapReady
    /\ undirected_graph
    /\ \E e \in graph :
          /\ e.src # e.dst
          /\ ~IsEdge(e.inst, e.dst, e.src)
          /\ heatmaps_logp[e.inst][e.dst][e.src] > 0

HeatmapShape ==
    /\ DOMAIN heatmaps_logp = Instances
    /\ \A i \in Instances :
          /\ DOMAIN heatmaps_logp[i] = Nodes
          /\ \A u \in Nodes : DOMAIN heatmaps_logp[i][u] = Nodes

ZeroOffEdges ==
    \A i \in Instances, u \in Nodes, v \in Nodes :
        ~IsEdge(i, u, v) /\ ~IsEdge(i, v, u) => heatmaps_logp[i][u][v] = 0

\* C6 as stated: shape [batch, N, N], zero wherever neither (u, v) nor
\* (v, u) is an edge, and zero at every diagonal position.
C6_Original ==
    HeatmapReady =>
        /\ HeatmapShape
        /\ ZeroOffEdges
        /\ \A i \in Instances, u \in Nodes : heatmaps_logp[i][u][u] = 0

\* C6 amended: shape [batch, N, N] and zero wherever neither (u, v) nor
\* (v, u) is an edge; a diagonal position is zero when (u, u) is no edge.
C6_ZeroOffEdges ==
    HeatmapReady => HeatmapShape /\ ZeroOffEdges

C6_Witness ==
    /\ HeatmapReady
    /\ \E e \in graph : e.src = e.dst /\ heatmaps_logp[e.inst][e.src][e.src] > 0
    /\ \E i \in Instances, u \in Nodes, v \in Nodes :
          u # v /\ ~IsEdge(i, u, v) /\ ~IsEdge(i, v, u)

MaskIsNegation ==
    /\ DOMAIN mask = Rows
    /\ \A s \in Rows, v \in Nodes : mask[s][v] = ~td.action_mask[s][v]

RowNormalised(s) ==
    /\ \A v \in Nodes :
          /\ log_p[s][v].den > 0
          /\ log_p[s][v].den = Sum([w \in Nodes |-> log_p[s][w].num], NumNodes)
    /\ \A v \in Nodes : ~mask[s][v] => IsFinite(log_p[s][v])

\* C7 as stated: mask negates action_mask, log_p is -inf at exactly the
\* positions where mask is true, and every row with a feasible action is a
\* normalised log-distribution with finite feasible positions.
C7_Original ==
    AfterGetLogP =>
        /\ MaskIsNegation
        /\ \A s \in Rows, v \in Nodes : IsNegInf(log_p[s][v]) <=> mask[s][v]
        /\ \A s \in Rows : HasFeasible(s) => RowNormalised(s)

\* C7 amended: in a row with a feasible action log_p is -inf at exactly
\* the masked positions and the row is normalised; a row without a feasible
\* action is NaN throughout.
C7_MaskedLogSoftmax ==
    AfterGetLogP =>
        /\ MaskIsNegation
        /\ \A s \in Rows :
              IF HasFeasible(s)
              THEN /\ \A v \in Nodes : IsNegInf(log_p[s][v]) <=> mask[s][v]
                   /\ RowNormalised(s)
              ELSE \A v \in Nodes : IsNaN(log_p[s][v])

C7_Witness ==
    /\ AfterGetLogP
    /\ \E s \in Rows : ~HasFeasible(s)
    /\ \E s \in Rows : HasFeasible(s) /\ \E v \in Nodes : mask[s][v]

\* C8 as stated: action_mask true marks a forbidden node: -inf at exactly
\* the nodes whose action_mask entry is true, finite only where it is false.
C8_Original ==
    AfterGetLogP =>
        \A s \in Rows, v \in Nodes :
            /\ IsNegInf(log_p[s][v]) <=> td.action_mask[s][v]
            /\ IsFinite(log_p[s][v]) => ~td.action_mask[s][v]

\* C8 amended: action_mask true marks a feasible node: in a row with a true
\* entry log_p is -inf at exactly the nodes whose entry is false and finite
\* at exactly the nodes whose entry is true.
C8_TrueIsFeasible ==
    AfterGetLogP =>
        \A s \in Rows : HasFeasible(s) =>
            \A v \in Nodes :
                /\ IsNegInf(log_p[s][v]) <=> ~td.action_mask[s][v]
                /\ IsFinite(log_p[s][v]) <=> td.action_mask[s][v]

C8_Witness ==
    /\ AfterGetLogP
    /\ \E s \in Rows, v \in Nodes, w \in Nodes :
          /\ td.action_mask[s][v] /\ IsFinite(log_p[s][v])
          /\ ~td.action_mask[s][w] /\ IsNegInf(log_p[s][w])

IndexedScores ==
    "action" \in td.keys =>
        \A s \in Rows, v \in Nodes :
            score[s][v] = heatmaps_logp[td.inst[s]][td.action[s]][v]

\* C9 as stated: on the first step the score of candidate v is the mean over
\* all source rows u of heatmap[i, u, v]; with an action it is
\* heatmap[owner, current node, v].
C9_Original ==
    AfterGetLogP =>
        /\ "action" \notin td.keys =>
              \A i \in Instances, v \in Nodes :
                  score[i][v] * NumNodes =
                      Sum([u \in Nodes |-> heatmaps_logp[i][u][v]], NumNodes)
        /\ IndexedScores

\* C9 amended: on the first step the score of candidate v is the mean of
\* v's own row, the mean over all targets w of heatmap[i, v, w]; with an
\* action it is heatmap[owner, current node, v].
C9_RowMean ==
    AfterGetLogP =>
        /\ "action" \notin td.keys =>
              \A i \in Instances, v \in Nodes :
                  score[i][v] * NumNodes =
                      Sum([w \in Nodes |-> heatmaps_logp[i][v][w]], NumNodes)
        /\ IndexedScores

C9_Witness ==
    /\ AfterGetLogP
    /\ "action" \notin td.keys
    /\ ~undirected_graph
    /\ \E i \in Instances, v \in Nodes :
          Sum([u \in Nodes |-> heatmaps_logp[i][u][v]], NumNodes)
              # Sum([w \in Nodes |-> heatmaps_logp[i][v][w]], NumNodes)

C9_WitnessIndexed ==
    /\ AfterGetLogP
    /\ "action" \in td.keys
    /\ num_starts > 1
    /\ \E s \in Rows : td.inst[s] # s

\* C10: once computed, the heatmap is changed by no later step of forward,
\* the in-place write of -inf into log_p included.
C10_HeatmapFrozen ==
    [][pc # "start" => heatmaps_logp' = heatmaps_logp]_vars

C10_Witness ==
    /\ AfterGetLogP
    /\ "action" \in td.keys
    /\ \E s \in Rows, v \in Nodes :
          /\ mask[s][v]
          /\ IsNegInf(log_p[s][v])
          /\ heatmaps_logp[td.inst[s]][td.action[s]][v] # NegInf

====
